---- MODULE Spec2Model ----
(***************************************************************************)
(* The flat-file session store of flow                                     *)
(* (internal/infra/filesystem/session_fs_repository.go) and the "start     *)
(* session" use case that sits on top of it.                               *)
(*                                                                         *)
(* Strings are sequences of one-character strings, so that the filename    *)
(* codec (concatenation, strings.Split on "-", the [^a-zA-Z0-9]+ regexp,   *)
(* strconv.FormatInt / ParseInt) is computed character by character.       *)
(* A time.Time is a record [sec, nsec]: whole Unix seconds plus the        *)
(* sub-second part.                                                        *)
(***************************************************************************)
EXTENDS Integers, Sequences, FiniteSets, TLC

(***************************************************************************)
(* Bounds of the model.                                                    *)
(***************************************************************************)
\* The directory holds at most MaxFiles entries.
MaxFiles == 2
\* Start times range over the whole seconds 0 .. MaxSec.
MaxSec == 1

(***************************************************************************)
(* Characters and strings.                                                 *)
(***************************************************************************)
DigitChars == <<"0", "1", "2", "3", "4", "5", "6", "7", "8", "9">>

Alnum ==
    {"a", "b", "c", "d", "e", "f", "g", "h", "i", "j", "k", "l", "m",
     "n", "o", "p", "q", "r", "s", "t", "u", "v", "w", "x", "y", "z",
     "A", "B", "C", "D", "E", "F", "G", "H", "I", "J", "K", "L", "M",
     "N", "O", "P", "Q", "R", "S", "T", "U", "V", "W", "X", "Y", "Z",
     "0", "1", "2", "3", "4", "5", "6", "7", "8", "9"}

IsDigit(c) == \E d \in 1..10 : DigitChars[d] = c

DigitVal(c) == (CHOOSE d \in 1..10 : DigitChars[d] = c) - 1

JsonSuffix == <<".", "j", "s", "o", "n">>

\* strings.TrimSuffix
TrimSuffix(s, suffix) ==
    IF /\ Len(s) >= Len(suffix)
       /\ SubSeq(s, Len(s) - Len(suffix) + 1, Len(s)) = suffix
    THEN SubSeq(s, 1, Len(s) - Len(suffix))
    ELSE s

\* strings.Split(s, sep) for a one-character separator
RECURSIVE Split(_, _)
Split(s, sep) ==
    IF \A i \in 1..Len(s) : s[i] # sep
    THEN <<s>>
    ELSE LET i == CHOOSE k \in 1..Len(s) :
                      /\ s[k] = sep
                      /\ \A j \in 1..(k - 1) : s[j] # sep
         IN  <<SubSeq(s, 1, i - 1)>> \o Split(SubSeq(s, i + 1, Len(s)), sep)

RECURSIVE FormatNat(_)
FormatNat(n) ==
    IF n < 10
    THEN <<DigitChars[n + 1]>>
    ELSE FormatNat(n \div 10) \o <<DigitChars[(n % 10) + 1]>>

\* strconv.FormatInt(n, 10)
FormatInt(n) == IF n < 0 THEN <<"-">> \o FormatNat(0 - n) ELSE FormatNat(n)

RECURSIVE ParseNat(_)
ParseNat(s) ==
    IF s = <<>>
    THEN 0
    ELSE 10 * ParseNat(SubSeq(s, 1, Len(s) - 1)) + DigitVal(s[Len(s)])

\* strconv.ParseInt(s, 10, 64): an optional sign, then at least one digit
ParseInt(s) ==
    LET signed == s # <<>> /\ s[1] \in {"+", "-"}
        body   == IF signed THEN Tail(s) ELSE s
    IN  IF body = <<>> \/ \E i \in 1..Len(body) : ~IsDigit(body[i])
        THEN [err |-> TRUE, val |-> 0]
        ELSE [err |-> FALSE,
              val |-> IF signed /\ s[1] = "-"
                      THEN 0 - ParseNat(body)
                      ELSE ParseNat(body)]

(***************************************************************************)
(* time.Time                                                               *)
(***************************************************************************)
\* The sub-second part of a time: on the second, or a fraction after it.
Nsecs == 0..1

Secs == 0..MaxSec

Times == [sec : Secs, nsec : Nsecs]

\* The zero value of time.Time lies before every time the model uses.
ZeroTime == [sec |-> 0 - (MaxSec + 3), nsec |-> 0]

IsZero(t) == t = ZeroTime

Before(t, u) == t.sec < u.sec \/ (t.sec = u.sec /\ t.nsec < u.nsec)

After(t, u) == Before(u, t)

\* t.Unix()
Unix(t) == t.sec

\* TimeUnix, had the number been taken for milliseconds.
TimeUnix_Milli(sec) == [sec |-> sec \div 1000, nsec |-> 0]

\* time.Unix(sec, 0)
TimeUnix(sec) == [sec |-> sec, nsec |-> 0]

(***************************************************************************)
(* session.Session and the inputs the operations are called with.          *)
(***************************************************************************)
Ids == {<<"1">>, <<"2">>, <<"i", "d", "-", "1">>}

Projects == {<<"F", "l", "o", "w">>, <<"G", "o", "!">>}

TagLists == {<<"start", "cli">>}

\* The sessions handed to Save.  No operation of this store writes an end
\* marker, so every session carries the zero EndTime.
SessionInputs ==
    [Id : Ids, StartTime : Times, EndTime : {ZeroTime}, Project : Projects,
     Tags : TagLists]

\* A session is active while it has no end marker.
IsActive(s) == IsZero(s.EndTime)

(***************************************************************************)
(* The file body: json.MarshalIndent / json.Unmarshal of a Session.  A     *)
(* time is written as its seconds and its fraction, a string as its        *)
(* characters, the tags as an array.                                       *)
(***************************************************************************)
MarshalTime(t) == <<t.sec, t.nsec>>

UnmarshalTime(j) == [sec |-> j[1], nsec |-> j[2]]

\* MarshalSession, had the start time been written in whole seconds.
MarshalSession_WholeSeconds(s) ==
    [id         |-> s.Id,
     start_time |-> MarshalTime(TimeUnix(Unix(s.StartTime))),
     end_time   |-> MarshalTime(s.EndTime),
     project    |-> s.Project,
     tags       |-> s.Tags]

MarshalSession(s) ==
    [id         |-> s.Id,
     start_time |-> MarshalTime(s.StartTime),
     end_time   |-> MarshalTime(s.EndTime),
     project    |-> s.Project,
     tags       |-> s.Tags]

rawFileToSession(raw) ==
    [Id        |-> raw.id,
     StartTime |-> UnmarshalTime(raw.start_time),
     EndTime   |-> UnmarshalTime(raw.end_time),
     Project   |-> raw.project,
     Tags      |-> raw.tags]

(***************************************************************************)
(* The filename codec.                                                     *)
(***************************************************************************)
\* regexp [^a-zA-Z0-9]+ replaced by "": every other character is removed.
StrippedProject(project) == SelectSeq(project, LAMBDA c : c \in Alnum)

\* SessionFilename.String
String(sf) ==
    sf.Id \o <<"-">> \o StrippedProject(sf.Project) \o <<"-">>
          \o FormatInt(Unix(sf.StartTime)) \o JsonSuffix

\* getSessionFileName with the id left out of the name
getSessionFileName_NoId(s) ==
    String([Id |-> <<>>, Project |-> s.Project, StartTime |-> s.StartTime])

getSessionFileName(s) ==
    String([Id |-> s.Id, Project |-> s.Project, StartTime |-> s.StartTime])

EmptySessionFilename == [Id |-> <<>>, Project |-> <<>>, StartTime |-> ZeroTime]

\* Returns [err, name]: err is TRUE when the name does not decode.
parseSessionFileName(fileName) ==
    LET parts == Split(fileName, "-")
    IN  IF Len(parts) # 3
        THEN [err |-> TRUE, name |-> EmptySessionFilename]
        ELSE LET startTimeUnix == ParseInt(TrimSuffix(parts[3], JsonSuffix))
             IN  IF startTimeUnix.err
                 THEN [err |-> TRUE, name |-> EmptySessionFilename]
                 ELSE [err  |-> FALSE,
                       name |-> [Id        |-> parts[1],
                                 Project   |-> parts[2],
                                 StartTime |-> TimeUnix(startTimeUnix.val)]]

(***************************************************************************)
(* The state: the storage directory, and the last call with its outcome.   *)
(***************************************************************************)
VARIABLES
    files,      \* the regular files of the directory: name -> body
    subdirs,    \* the names of the directory's subdirectories
    op,         \* the last operation called
    arg,        \* its argument
    ret,        \* its outcome
    effect,     \* what the last call did to the directory
    starts      \* the two concurrent start invocations, each at its step

vars == <<files, subdirs, op, arg, ret, effect, starts>>

\* The outcomes of a call: a normal return (with the sessions returned, none
\* for nil), a returned error, or log.Fatal, which ends the process.
Ok(sessions) == [kind |-> "ok", err |-> <<>>, sessions |-> sessions]

Error(e) == [kind |-> "error", err |-> e, sessions |-> <<>>]

Fatal == [kind |-> "fatal", err |-> <<>>, sessions |-> <<>>]

Nil == Ok(<<>>)

NotFoundError(id) == Error(<<"session with id ">> \o id \o <<" not found">>)

ErrSessionAlreadyStarted == Error(<<"session already started">>)

\* The sequences that list every element of S once.
Orderings(S) ==
    {p \in [1..Cardinality(S) -> S] :
        \A i, j \in 1..Cardinality(S) : p[i] = p[j] => i = j}

\* readFlowFolder: Readdir(-1) lists the entries in directory order, which
\* is any order.
readFlowFolder ==
    Orderings({[Name |-> n, IsDir |-> FALSE] : n \in DOMAIN files}
                 \cup {[Name |-> d, IsDir |-> TRUE] : d \in subdirs})

\* os.ReadFile followed by rawFileToSession
ReadSession(name) == rawFileToSession(files[name])

\* os.WriteFile creates the file, or truncates the one that exists.
WriteEffect(name) == IF name \in DOMAIN files THEN "replaced" ELSE "created"

\* The concurrent start invocations, and one that has not begun.
Procs == {1, 2}

NotCalled == [pc |-> "call", command |-> <<>>, ret |-> Nil]

(***************************************************************************)
(* The store's operations, as functions of the listing they read.          *)
(***************************************************************************)
\* FindById: the first listed file whose name decodes to id.
RECURSIVE FindById(_, _)
FindById(fileInfos, id) ==
    IF fileInfos = <<>>
    THEN Nil
    ELSE LET fileInfo        == Head(fileInfos)
             sessionFilename == parseSessionFileName(fileInfo.Name)
         IN  IF fileInfo.IsDir
             THEN FindById(Tail(fileInfos), id)
             ELSE IF sessionFilename.err
             THEN Fatal
             ELSE IF sessionFilename.name.Id = id
             THEN Ok(<<ReadSession(fileInfo.Name)>>)
             ELSE FindById(Tail(fileInfos), id)

\* WriteFile, had it left an existing file as it is.
WriteFile_KeepsExisting(name, data) ==
    [n \in DOMAIN files \cup {name} |->
        IF n = name /\ n \notin DOMAIN files THEN data ELSE files[n]]

\* os.WriteFile: creates the file or replaces its body.
WriteFile(name, data) ==
    [n \in DOMAIN files \cup {name} |-> IF n = name THEN data ELSE files[n]]

\* os.Remove
Remove(name) == [n \in DOMAIN files \ {name} |-> files[n]]

\* Save: the directory after the call.
Save(sessionToSave) ==
    WriteFile(getSessionFileName(sessionToSave), MarshalSession(sessionToSave))

\* Delete, had it returned nil where no file matches.
RECURSIVE Delete_NilOnMiss(_, _)
Delete_NilOnMiss(fileInfos, id) ==
    IF fileInfos = <<>>
    THEN [ret |-> Ok(<<>>), files |-> files]
    ELSE LET fileInfo     == Head(fileInfos)
             filenameInfo == parseSessionFileName(fileInfo.Name)
         IN  IF fileInfo.IsDir
             THEN Delete_NilOnMiss(Tail(fileInfos), id)
             ELSE IF filenameInfo.err
             THEN [ret |-> Fatal, files |-> files]
             ELSE IF filenameInfo.name.Id = id
             THEN [ret |-> Ok(<<>>), files |-> Remove(fileInfo.Name)]
             ELSE Delete_NilOnMiss(Tail(fileInfos), id)

\* Delete: the outcome and the directory after the call.
RECURSIVE Delete(_, _)
Delete(fileInfos, id) ==
    IF fileInfos = <<>>
    THEN [ret |-> NotFoundError(id), files |-> files]
    ELSE LET fileInfo     == Head(fileInfos)
             filenameInfo == parseSessionFileName(fileInfo.Name)
         IN  IF fileInfo.IsDir
             THEN Delete(Tail(fileInfos), id)
             ELSE IF filenameInfo.err
             THEN [ret |-> Fatal, files |-> files]
             ELSE IF filenameInfo.name.Id = id
             THEN [ret |-> Ok(<<>>), files |-> Remove(fileInfo.Name)]
             ELSE Delete(Tail(fileInfos), id)

(***************************************************************************)
(* timerange.TimeRange and application.SessionsFilters                     *)
(***************************************************************************)
IsZeroRange(timeRange) == IsZero(timeRange.Since) /\ IsZero(timeRange.Until)

JustUntil(timeRange) == IsZero(timeRange.Since) /\ ~IsZero(timeRange.Until)

JustSince(timeRange) == ~IsZero(timeRange.Since) /\ IsZero(timeRange.Until)

SinceAndUntil(timeRange) == ~IsZero(timeRange.Since) /\ ~IsZero(timeRange.Until)

ZeroRange == [Since |-> ZeroTime, Until |-> ZeroTime]

\* The nil *SessionsFilters
NoFilters == [nil |-> TRUE, Timerange |-> ZeroRange, Project |-> <<>>]

\* filterByProject, had it skipped the names that do not decode.
RECURSIVE filterByProject_SkipsCorrupt(_, _)
filterByProject_SkipsCorrupt(fileInfos, project) ==
    IF fileInfos = <<>>
    THEN [fatal |-> FALSE, infos |-> <<>>]
    ELSE LET fileInfo        == Head(fileInfos)
             sessionFilename == parseSessionFileName(fileInfo.Name)
             rest            == filterByProject_SkipsCorrupt(Tail(fileInfos), project)
         IN  IF ~sessionFilename.err /\ sessionFilename.name.Project = project
             THEN [fatal |-> FALSE, infos |-> <<fileInfo>> \o rest.infos]
             ELSE rest

\* filterByProject: [fatal, infos]
RECURSIVE filterByProject(_, _)
filterByProject(fileInfos, project) ==
    IF fileInfos = <<>>
    THEN [fatal |-> FALSE, infos |-> <<>>]
    ELSE LET fileInfo        == Head(fileInfos)
             sessionFilename == parseSessionFileName(fileInfo.Name)
             rest            == filterByProject(Tail(fileInfos), project)
         IN  IF sessionFilename.err \/ rest.fatal
             THEN [fatal |-> TRUE, infos |-> <<>>]
             ELSE IF sessionFilename.name.Project = project
             THEN [fatal |-> FALSE, infos |-> <<fileInfo>> \o rest.infos]
             ELSE rest

\* InTimeRange, had the upper bound been inclusive.
InTimeRange_UntilInclusive(startTime, timeRange) ==
    IF JustUntil(timeRange)
    THEN ~After(startTime, timeRange.Until)
    ELSE IF JustSince(timeRange)
    THEN After(startTime, timeRange.Since)
    ELSE IF SinceAndUntil(timeRange)
    THEN After(startTime, timeRange.Since) /\ ~After(startTime, timeRange.Until)
    ELSE TRUE

\* The test filterByTimeRange applies to a decoded start time.
InTimeRange(startTime, timeRange) ==
    IF JustUntil(timeRange)
    THEN Before(startTime, timeRange.Until)
    ELSE IF JustSince(timeRange)
    THEN After(startTime, timeRange.Since)
    ELSE IF SinceAndUntil(timeRange)
    THEN After(startTime, timeRange.Since) /\ Before(startTime, timeRange.Until)
    ELSE TRUE

\* filterByTimeRange: [fatal, infos]
RECURSIVE filterByTimeRange(_, _)
filterByTimeRange(fileInfos, timeRange) ==
    IF fileInfos = <<>>
    THEN [fatal |-> FALSE, infos |-> <<>>]
    ELSE LET fileInfo        == Head(fileInfos)
             sessionFilename == parseSessionFileName(fileInfo.Name)
             rest            == filterByTimeRange(Tail(fileInfos), timeRange)
         IN  IF sessionFilename.err \/ rest.fatal
             THEN [fatal |-> TRUE, infos |-> <<>>]
             ELSE IF InTimeRange(sessionFilename.name.StartTime, timeRange)
             THEN [fatal |-> FALSE, infos |-> <<fileInfo>> \o rest.infos]
             ELSE rest

\* Less, had it compared the other way round.
Less_Reversed(a, b) == Before(b.StartTime, a.StartTime)

\* Sessions.Less
Less(a, b) == Before(a.StartTime, b.StartTime)

\* sort.Sort(sessions): on slices this short the library sorts by insertion,
\* moving each element left while it is Less than its left neighbour.
RECURSIVE InsertSession(_, _)
InsertSession(sorted, x) ==
    IF sorted = <<>>
    THEN <<x>>
    ELSE LET prev == sorted[Len(sorted)]
         IN  IF Less(x, prev)
             THEN Append(InsertSession(SubSeq(sorted, 1, Len(sorted) - 1), x), prev)
             ELSE Append(sorted, x)

RECURSIVE SortSessions(_)
SortSessions(sessions) ==
    IF sessions = <<>>
    THEN <<>>
    ELSE InsertSession(SortSessions(SubSeq(sessions, 1, Len(sessions) - 1)),
                       sessions[Len(sessions)])

\* ReadSessions, had the loop ended after the first entry.
ReadSessions_FirstOnly(fileInfos) ==
    IF fileInfos = <<>> \/ Head(fileInfos).IsDir
    THEN <<>>
    ELSE <<ReadSession(Head(fileInfos).Name)>>

\* The read loop of FindAllSessions: directories are skipped.
RECURSIVE ReadSessions(_)
ReadSessions(fileInfos) ==
    IF fileInfos = <<>>
    THEN <<>>
    ELSE IF Head(fileInfos).IsDir
    THEN ReadSessions(Tail(fileInfos))
    ELSE <<ReadSession(Head(fileInfos).Name)>> \o ReadSessions(Tail(fileInfos))

FindAllSessions(fileInfos, filters) ==
    LET byTime ==
            IF ~filters.nil /\ ~IsZeroRange(filters.Timerange)
            THEN filterByTimeRange(fileInfos, filters.Timerange)
            ELSE [fatal |-> FALSE, infos |-> fileInfos]
        byProject ==
            IF byTime.fatal
            THEN byTime
            ELSE IF ~filters.nil /\ filters.Project # <<>>
            THEN filterByProject(byTime.infos, filters.Project)
            ELSE byTime
    IN  IF byProject.fatal
        THEN Fatal
        ELSE Ok(SortSessions(ReadSessions(byProject.infos)))

\* The loop of FindLastSession that decodes every file's name: [fatal, names]
RECURSIVE ParseFileNames(_)
ParseFileNames(fileInfos) ==
    IF fileInfos = <<>>
    THEN [fatal |-> FALSE, names |-> <<>>]
    ELSE LET fileInfo     == Head(fileInfos)
             filenameInfo == parseSessionFileName(fileInfo.Name)
             rest         == ParseFileNames(Tail(fileInfos))
         IN  IF fileInfo.IsDir
             THEN rest
             ELSE IF filenameInfo.err \/ rest.fatal
             THEN [fatal |-> TRUE, names |-> <<>>]
             ELSE [fatal |-> FALSE, names |-> <<filenameInfo.name>> \o rest.names]

\* The less function FindLastSession hands to sort.Slice: later start first.
LaterFirst(a, b) == Before(b.StartTime, a.StartTime)

RECURSIVE InsertFileName(_, _)
InsertFileName(sorted, x) ==
    IF sorted = <<>>
    THEN <<x>>
    ELSE LET prev == sorted[Len(sorted)]
         IN  IF LaterFirst(x, prev)
             THEN Append(InsertFileName(SubSeq(sorted, 1, Len(sorted) - 1), x), prev)
             ELSE Append(sorted, x)

RECURSIVE SortFileNames(_)
SortFileNames(fileNames) ==
    IF fileNames = <<>>
    THEN <<>>
    ELSE InsertFileName(SortFileNames(SubSeq(fileNames, 1, Len(fileNames) - 1)),
                        fileNames[Len(fileNames)])

\* FindLastSession, had it taken a directory of one file for an empty one.
FindLastSession_NilOnSingleFile(fileInfos) ==
    LET parsed == ParseFileNames(fileInfos)
    IN  IF parsed.fatal
        THEN Fatal
        ELSE IF Len(parsed.names) <= 1
        THEN Nil
        ELSE LET lastSessionFile == String(SortFileNames(parsed.names)[1])
             IN  IF lastSessionFile \notin DOMAIN files
                 THEN Fatal
                 ELSE Ok(<<ReadSession(lastSessionFile)>>)

FindLastSession(fileInfos) ==
    LET parsed == ParseFileNames(fileInfos)
    IN  IF parsed.fatal
        THEN Fatal
        ELSE IF parsed.names = <<>>
        THEN Nil
        ELSE LET lastSessionFile == String(SortFileNames(parsed.names)[1])
             IN  IF lastSessionFile \notin DOMAIN files
                 THEN Fatal
                 ELSE Ok(<<ReadSession(lastSessionFile)>>)

\* The values of seq, each once, in the order of their first occurrence
\* (the loops' slices.Contains and append).
RECURSIVE FirstSeen(_)
FirstSeen(seq) ==
    IF seq = <<>>
    THEN <<>>
    ELSE LET front == FirstSeen(SubSeq(seq, 1, Len(seq) - 1))
             last  == seq[Len(seq)]
         IN  IF \E i \in 1..Len(front) : front[i] = last
             THEN front
             ELSE Append(front, last)

\* The tags of the sessions, one after the other.
RECURSIVE AllTags(_)
AllTags(sessions) ==
    IF sessions = <<>>
    THEN <<>>
    ELSE Head(sessions).Tags \o AllTags(Tail(sessions))

\* FindAllProjects: the outcome carries the projects.
FindAllProjects(fileInfos) ==
    LET sessions == FindAllSessions(fileInfos, NoFilters)
    IN  IF sessions.kind = "fatal"
        THEN Fatal
        ELSE Ok(FirstSeen([i \in 1..Len(sessions.sessions) |->
                              sessions.sessions[i].Project]))

\* FindAllProjectTags: the outcome carries the tags.
FindAllProjectTags(fileInfos, project) ==
    LET sessionsForProject ==
            FindAllSessions(fileInfos, [nil       |-> FALSE,
                                        Timerange |-> ZeroRange,
                                        Project   |-> project])
    IN  IF sessionsForProject.kind = "fatal"
        THEN Fatal
        ELSE Ok(FirstSeen(AllTags(sessionsForProject.sessions)))

(***************************************************************************)
(* The start-session use case: refuse while the most recent session is     *)
(* active, else save a new session.  The outcome and the directory after.  *)
(***************************************************************************)
\* The precondition check: Nil when a session may be started.
CheckNotStarted(fileInfos) ==
    LET lastSession == FindLastSession(fileInfos)
    IN  IF lastSession.kind = "fatal"
        THEN Fatal
        ELSE IF lastSession.sessions # <<>> /\ IsActive(lastSession.sessions[1])
        THEN ErrSessionAlreadyStarted
        ELSE Nil

StartFlowSession(fileInfos, command, id, now) ==
    LET newSession == [Id        |-> id,
                       StartTime |-> now,
                       EndTime   |-> ZeroTime,
                       Project   |-> command.Project,
                       Tags      |-> command.Tags]
    IN  IF CheckNotStarted(fileInfos) # Nil
        THEN [ret |-> CheckNotStarted(fileInfos), files |-> files]
        ELSE [ret |-> Ok(<<newSession>>), files |-> Save(newSession)]

(***************************************************************************)
(* The inputs of the queries.                                              *)
(***************************************************************************)
\* A bound of a time range is absent (the zero time), on a whole second, or
\* between two whole seconds.
SinceInputs == {ZeroTime, [sec |-> 0, nsec |-> 0], [sec |-> 0, nsec |-> 1]}

UntilInputs == {ZeroTime, [sec |-> MaxSec, nsec |-> 0], [sec |-> MaxSec, nsec |-> 1]}

TimeRanges == [Since : SinceInputs, Until : UntilInputs]

FiltersInputs ==
    {NoFilters}
    \cup [nil : {FALSE}, Timerange : TimeRanges, Project : Projects \cup {<<>>}]

Commands == [Project : Projects, Tags : TagLists]

(***************************************************************************)
(* The state machine: one action per call.                                 *)
(***************************************************************************)
Init ==
    /\ files = <<>>
    /\ subdirs = {}
    /\ op = "new"
    /\ arg = <<>>
    /\ ret = Nil
    /\ effect = "none"
    /\ starts = [p \in Procs |-> NotCalled]

CallSave ==
    \E s \in SessionInputs :
        /\ Cardinality(DOMAIN Save(s)) + Cardinality(subdirs) <= MaxFiles
        /\ files' = Save(s)
        /\ op' = "save"
        /\ arg' = s
        /\ ret' = Nil
        /\ effect' = WriteEffect(getSessionFileName(s))
        /\ UNCHANGED <<subdirs, starts>>

CallFindById ==
    \E fileInfos \in readFlowFolder, id \in Ids :
        /\ op' = "findById"
        /\ arg' = id
        /\ ret' = FindById(fileInfos, id)
        /\ effect' = "none"
        /\ UNCHANGED <<files, subdirs, starts>>

CallDelete ==
    \E fileInfos \in readFlowFolder, id \in Ids :
        LET deleted == Delete(fileInfos, id)
        IN  /\ op' = "delete"
            /\ arg' = id
            /\ ret' = deleted.ret
            /\ files' = deleted.files
            /\ effect' = IF deleted.files = files THEN "none" ELSE "removed"
            /\ UNCHANGED <<subdirs, starts>>

CallFindAllSessions ==
    \E fileInfos \in readFlowFolder, filters \in FiltersInputs :
        /\ op' = "findAll"
        /\ arg' = filters
        /\ ret' = FindAllSessions(fileInfos, filters)
        /\ effect' = "none"
        /\ UNCHANGED <<files, subdirs, starts>>

CallFindLastSession ==
    \E fileInfos \in readFlowFolder :
        /\ op' = "findLast"
        /\ arg' = <<>>
        /\ ret' = FindLastSession(fileInfos)
        /\ effect' = "none"
        /\ UNCHANGED <<files, subdirs, starts>>

CallFindAllProjects ==
    \E fileInfos \in readFlowFolder :
        /\ op' = "findAllProjects"
        /\ arg' = <<>>
        /\ ret' = FindAllProjects(fileInfos)
        /\ effect' = "none"
        /\ UNCHANGED <<files, subdirs, starts>>

CallFindAllProjectTags ==
    \E fileInfos \in readFlowFolder, project \in Projects :
        /\ op' = "findAllProjectTags"
        /\ arg' = project
        /\ ret' = FindAllProjectTags(fileInfos, project)
        /\ effect' = "none"
        /\ UNCHANGED <<files, subdirs, starts>>

\* The id generator and the clock are asked only once the check has passed.
CallStart ==
    \E fileInfos \in readFlowFolder, command \in Commands :
        \E id \in (IF CheckNotStarted(fileInfos) = Nil THEN Ids ELSE {<<>>}),
           now \in (IF CheckNotStarted(fileInfos) = Nil THEN Times ELSE {ZeroTime}) :
            LET started == StartFlowSession(fileInfos, command, id, now)
            IN  /\ Cardinality(DOMAIN started.files) + Cardinality(subdirs) <= MaxFiles
                /\ op' = "start"
                /\ arg' = [command |-> command, id |-> id, now |-> now]
                /\ ret' = started.ret
                /\ files' = started.files
                /\ effect' = IF started.ret.kind = "ok"
                              THEN WriteEffect(getSessionFileName(started.ret.sessions[1]))
                              ELSE "none"
                /\ UNCHANGED <<subdirs, starts>>

Next ==
    \/ CallSave
    \/ CallFindById
    \/ CallDelete
    \/ CallFindAllSessions
    \/ CallFindLastSession
    \/ CallFindAllProjects
    \/ CallFindAllProjectTags
    \/ CallStart

Spec == Init /\ [][Next]_vars

(***************************************************************************)
(* The store on a directory in which a subdirectory is made before the     *)
(* first call.                                                             *)
(***************************************************************************)
\* The name of a subdirectory: no session file has it.
DirNames == {<<"t", "m", "p">>}

Mkdir ==
    \E d \in DirNames \ subdirs :
        /\ Cardinality(DOMAIN files) + Cardinality(subdirs) < MaxFiles
        /\ subdirs' = subdirs \cup {d}
        /\ op' = "mkdir"
        /\ arg' = d
        /\ ret' = Nil
        /\ effect' = "none"
        /\ UNCHANGED <<files, starts>>

DirsNext ==
    \/ Mkdir
    \/ subdirs # {} /\ CallSave
    \/ subdirs # {} /\ CallFindById
    \/ subdirs # {} /\ CallDelete
    \/ subdirs # {} /\ CallFindAllSessions
    \/ subdirs # {} /\ CallFindLastSession

SpecDirs == Init /\ [][DirsNext]_vars

(***************************************************************************)
(* Two start invocations running at once against one directory.  Each is   *)
(* two steps, the check of the most recent session and the save of the new *)
(* one, and nothing holds the directory between them.                      *)
(***************************************************************************)
\* The check: findLast on the directory as it is now.
StartCheck(p) ==
    /\ starts[p].pc = "call"
    /\ \E fileInfos \in readFlowFolder, command \in Commands :
           starts' = [starts EXCEPT ![p] =
                         [pc      |-> IF CheckNotStarted(fileInfos) = Nil
                                      THEN "checked" ELSE "done",
                          command |-> command,
                          ret     |-> CheckNotStarted(fileInfos)]]
    /\ UNCHANGED <<files, subdirs, op, arg, ret, effect>>

\* The save: the session is built and written whatever the directory holds
\* by now.
StartSave(p) ==
    /\ starts[p].pc = "checked"
    /\ \E id \in Ids, now \in Times :
           LET newSession == [Id        |-> id,
                              StartTime |-> now,
                              EndTime   |-> ZeroTime,
                              Project   |-> starts[p].command.Project,
                              Tags      |-> starts[p].command.Tags]
           IN  /\ Cardinality(DOMAIN Save(newSession)) <= MaxFiles
               /\ files' = Save(newSession)
               /\ starts' = [starts EXCEPT ![p] =
                                [pc      |-> "done",
                                 command |-> starts[p].command,
                                 ret     |-> Ok(<<newSession>>)]]
    /\ UNCHANGED <<subdirs, op, arg, ret, effect>>

RaceNext == \E p \in Procs : StartCheck(p) \/ StartSave(p)

SpecRace == Init /\ [][RaceNext]_vars

(***************************************************************************)
(* Vocabulary of the properties.                                           *)
(***************************************************************************)
\* Every file name of the directory decodes.
AllDecode == \A n \in DOMAIN files : ~parseSessionFileName(n).err

\* The names of the files that decode to id.
FilesOf(id) ==
    {n \in DOMAIN files :
        /\ ~parseSessionFileName(n).err
        /\ parseSessionFileName(n).name.Id = id}

\* The sessions the directory stores.
Stored == {ReadSession(n) : n \in DOMAIN files}

Range(seq) == {seq[i] : i \in 1..Len(seq)}

\* r is s, but for the sub-second part of the start time.
SameUpToSeconds(r, s) ==
    /\ r.Id = s.Id
    /\ r.Project = s.Project
    /\ r.Tags = s.Tags
    /\ Unix(r.StartTime) = Unix(s.StartTime)

(***************************************************************************)
(* C1.  Starting a session while the most recent stored session exists and *)
(* is active fails with SessionAlreadyStarted and leaves the directory as  *)
(* it was: no file is written, modified or removed.                        *)
(***************************************************************************)
\* The directory stores a session, findLast can read it, and the sessions
\* of the latest whole second are active.
LastSessionActive ==
    /\ DOMAIN files # {}
    /\ AllDecode
    /\ \A n \in DOMAIN files :
           (\A m \in DOMAIN files :
                parseSessionFileName(m).name.StartTime.sec
                    <= parseSessionFileName(n).name.StartTime.sec)
           => IsActive(ReadSession(n))

C1_StartRefusedWhileActive ==
    [][(op' = "start" /\ LastSessionActive)
          => (ret' = ErrSessionAlreadyStarted /\ files' = files)]_vars

C1_Witness ==
    /\ op = "start"
    /\ ret = ErrSessionAlreadyStarted
    /\ Cardinality(DOMAIN files) = 1

(***************************************************************************)
(* C2.  Starting a session on a store without sessions succeeds and writes *)
(* exactly one file; the session saved, which is the one returned, has the *)
(* generator's id, the clock's time as start time and the command's        *)
(* project and tags.                                                       *)
(***************************************************************************)
C2_StartOnEmptyStore ==
    [][(op' = "start" /\ DOMAIN files = {})
          => /\ ret'.kind = "ok"
             /\ Cardinality(DOMAIN files') = 1
             /\ \A n \in DOMAIN files' :
                    /\ ret'.sessions = <<rawFileToSession(files'[n])>>
                    /\ rawFileToSession(files'[n]).Id = arg'.id
                    /\ rawFileToSession(files'[n]).StartTime = arg'.now
                    /\ rawFileToSession(files'[n]).Project = arg'.command.Project
                    /\ rawFileToSession(files'[n]).Tags = arg'.command.Tags]_vars

C2_Witness ==
    /\ op = "start"
    /\ ret.kind = "ok"
    /\ Cardinality(DOMAIN files) = 1
    /\ arg.now.nsec = 1
    /\ ret.sessions[1].StartTime = arg.now

(***************************************************************************)
(* C3.  Round trip: save(s) followed by findById(s.Id) returns s, up to    *)
(* the sub-second part of the start time, whatever s is; stated here for   *)
(* the store that holds nothing but the file of s.                         *)
(***************************************************************************)
C3_SaveThenFindById ==
    [][(op = "save" /\ DOMAIN files = {getSessionFileName(arg)}
                    /\ op' = "findById" /\ arg' = arg.Id)
          => /\ ret'.kind = "ok"
             /\ Len(ret'.sessions) = 1
             /\ SameUpToSeconds(ret'.sessions[1], arg)]_vars

(***************************************************************************)
(* C4.  delete(id) on an id that has a stored file removes exactly one     *)
(* file and returns no error, and a findById(id) that follows finds        *)
(* nothing; stated here for directories whose names all decode.            *)
(***************************************************************************)
C4_DeleteThenNotFound ==
    [][AllDecode
          => /\ (op' = "delete" /\ FilesOf(arg') # {})
                   => /\ ret' = Ok(<<>>)
                      /\ Cardinality(DOMAIN files') = Cardinality(DOMAIN files) - 1
             /\ (op = "delete" /\ ret = Ok(<<>>) /\ op' = "findById" /\ arg' = arg)
                   => ret' = Nil]_vars

C6_FindLastIsMaximum ==
    (op = "findLast" /\ AllDecode /\ \A id \in Ids : Cardinality(FilesOf(id)) <= 1)
        => /\ ret.kind = "ok"
           /\ (ret = Nil) <=> (DOMAIN files = {})
           /\ ret # Nil
                 => /\ ret.sessions[1] \in Stored
                    /\ \A s \in Stored :
                           ~Before(ret.sessions[1].StartTime, s.StartTime)

(***************************************************************************)
(* C7.  Whenever findAll returns, the sessions it returns are in           *)
(* non-decreasing order of start time, and they are the stored sessions    *)
(* whose files pass the filters, each once; it returns whenever the names  *)
(* all decode.                                                             *)
(***************************************************************************)
\* The file passes the filters of the call: its decoded start time lies
\* strictly within the bounds given, and its decoded project is the one asked.
Passes(n, filters) ==
    \/ filters.nil
    \/ /\ \/ IsZero(filters.Timerange.Since)
          \/ Before(filters.Timerange.Since, parseSessionFileName(n).name.StartTime)
       /\ \/ IsZero(filters.Timerange.Until)
          \/ Before(parseSessionFileName(n).name.StartTime, filters.Timerange.Until)
       /\ \/ filters.Project = <<>>
          \/ parseSessionFileName(n).name.Project = filters.Project

C8_ProjectFilterFindsProject ==
    (op = "findAll" /\ AllDecode /\ ~arg.nil /\ arg.Project # <<>>
                    /\ IsZeroRange(arg.Timerange))
        => /\ ret.kind = "ok"
           /\ \A s \in Stored : s.Project = arg.Project => s \in Range(ret.sessions)

(***************************************************************************)
(* C9.  The time-range filter keeps exactly the entries whose decoded      *)
(* start time t satisfies: no bound, all; since only, since < t; until     *)
(* only, t < until; both, since < t < until.                               *)
(***************************************************************************)
\* Both bounds are exclusive, and an absent bound does not restrict.
StrictlyWithin(t, timeRange) ==
    /\ IsZero(timeRange.Since) \/ Before(timeRange.Since, t)
    /\ IsZero(timeRange.Until) \/ Before(t, timeRange.Until)

C9_TimeRangeFilter ==
    (op = "findAll" /\ ret.kind = "ok" /\ arg.Project = <<>>)
        => Range(ret.sessions)
              = {ReadSession(n) :
                    n \in {m \in DOMAIN files :
                              \/ IsZeroRange(arg.Timerange)
                              \/ StrictlyWithin(parseSessionFileName(m).name.StartTime,
                                                arg.Timerange)}}

C9_Witness ==
    /\ op = "findAll"
    /\ ret.kind = "ok"
    /\ arg.Project = <<>>
    /\ SinceAndUntil(arg.Timerange)
    /\ Len(ret.sessions) = 1
    /\ \E n \in DOMAIN files :
           parseSessionFileName(n).name.StartTime = arg.Timerange.Since

(***************************************************************************)
(* C10.  In every reachable directory each session is stored as exactly    *)
(* one file: no two files decode to the same id.                           *)
(***************************************************************************)
C10_OneFilePerId ==
    \A n, m \in DOMAIN files :
        (/\ ~parseSessionFileName(n).err
         /\ ~parseSessionFileName(m).err
         /\ parseSessionFileName(n).name.Id = parseSessionFileName(m).name.Id)
            => n = m

(***************************************************************************)
(* C11.  Two start invocations run at once on a directory with no active   *)
(* session: when both have checked before either has saved, both pass the  *)
(* check and both write, and the directory then holds two active sessions  *)
(* (the ids differing, the two files differ).                              *)
(***************************************************************************)
C11_BothStartsWrite ==
    (/\ \A p \in Procs : starts[p].pc = "done" /\ starts[p].ret.kind = "ok"
     /\ starts[1].ret.sessions[1].Id # starts[2].ret.sessions[1].Id)
        => /\ Cardinality(DOMAIN files) = 2
           /\ \A p \in Procs :
                 /\ getSessionFileName(starts[p].ret.sessions[1]) \in DOMAIN files
                 /\ IsActive(ReadSession(getSessionFileName(starts[p].ret.sessions[1])))

C11_Witness ==
    /\ \A p \in Procs : starts[p].pc = "done" /\ starts[p].ret.kind = "ok"
    /\ Cardinality(DOMAIN files) = 2
    /\ \A n \in DOMAIN files : IsActive(ReadSession(n))

(***************************************************************************)
(* C12.  The name of a saved session decodes, and decodes to the session's *)
(* id and to its start time cut to whole seconds, for every id (an id with *)
(* '-' in it included).                                                    *)
(***************************************************************************)
C12_FilenameRoundTrip ==
    op = "save"
        => LET decoded == parseSessionFileName(getSessionFileName(arg))
           IN  /\ getSessionFileName(arg) \in DOMAIN files
               /\ ~decoded.err
               /\ decoded.name.Id = arg.Id
               /\ decoded.name.StartTime = TimeUnix(Unix(arg.StartTime))

(***************************************************************************)
(* C13.  findAllProjects returns every project of the stored sessions      *)
(* once, and findAllProjectTags(p) every tag of the stored sessions of     *)
(* project p once, whatever the name p; a value whose first session starts *)
(* earlier comes first.  The tags are stated for directories whose names   *)
(* all decode.                                                             *)
(***************************************************************************)
NoDuplicates(seq) == \A i, j \in 1..Len(seq) : seq[i] = seq[j] => i = j

\* Of the sessions S, one holding value v under Has starts no later than
\* every one holding w.
FirstSeenBefore(S, Has(_, _), v, w) ==
    \E s \in S :
        /\ Has(s, v)
        /\ \A t \in S : Has(t, w) => ~Before(t.StartTime, s.StartTime)

HasProject(s, project) == s.Project = project

HasTag(s, tag) == tag \in Range(s.Tags)

C13_ProjectsAndTagsOnce ==
    /\ op = "findAllProjects"
          => /\ ret.kind = "ok"
             /\ NoDuplicates(ret.sessions)
             /\ Range(ret.sessions) = {s.Project : s \in Stored}
             /\ \A i, j \in 1..Len(ret.sessions) :
                   i < j => FirstSeenBefore(Stored, HasProject,
                                            ret.sessions[i], ret.sessions[j])
    /\ (op = "findAllProjectTags" /\ AllDecode)
          => /\ ret.kind = "ok"
             /\ NoDuplicates(ret.sessions)
             /\ Range(ret.sessions)
                   = UNION {Range(s.Tags) : s \in {t \in Stored : t.Project = arg}}
             /\ \A i, j \in 1..Len(ret.sessions) :
                   i < j => FirstSeenBefore({t \in Stored : t.Project = arg}, HasTag,
                                            ret.sessions[i], ret.sessions[j])

(***************************************************************************)
(* C14.  save(s) where a file of s's name exists replaces that file        *)
(* without error: as many files as before, the file's body is s            *)
(* serialized, every other file is as it was.  Where no such file exists   *)
(* exactly one file is added.                                              *)
(***************************************************************************)
C14_SaveOverwrites ==
    [][op' = "save"
          => LET name == getSessionFileName(arg')
             IN  /\ ret' = Nil
                 /\ name \in DOMAIN files'
                 /\ files'[name] = MarshalSession(arg')
                 /\ \A n \in DOMAIN files \ {name} :
                       n \in DOMAIN files' /\ files'[n] = files[n]
                 /\ IF name \in DOMAIN files
                    THEN DOMAIN files' = DOMAIN files
                    ELSE /\ DOMAIN files' = DOMAIN files \cup {name}
                         /\ Cardinality(DOMAIN files')
                               = Cardinality(DOMAIN files) + 1]_vars

\* A save that replaced one of two files.
C14_Witness ==
    /\ op = "save"
    /\ effect = "replaced"
    /\ Cardinality(DOMAIN files) = 2

(***************************************************************************)
(* C15.  A name that does not decode aborts the operation that decodes it, *)
(* and the directory is left as it was.  On a directory holding such a     *)
(* file: findLast aborts; findAll aborts when a project or a time range is *)
(* given, and returns every session when neither is (it decodes no name);  *)
(* findById and delete abort when no file decodes to the id, and otherwise *)
(* abort or reach the matching file, as the listing orders them.           *)
(***************************************************************************)
\* findAll decodes the names only when a time range or a project is given.
DecodesNames(filters) ==
    /\ ~filters.nil
    /\ ~IsZeroRange(filters.Timerange) \/ filters.Project # <<>>

C15_AbortWhereDecoded ==
    [][~AllDecode
          => /\ op' = "findLast" => ret' = Fatal
             /\ (op' = "findAll" /\ DecodesNames(arg')) => ret' = Fatal
             /\ (op' = "findAll" /\ ~DecodesNames(arg'))
                   => ret'.kind = "ok" /\ Range(ret'.sessions) = Stored
             /\ (op' \in {"findById", "delete"} /\ FilesOf(arg') = {})
                   => ret' = Fatal
             /\ (op' = "findById" /\ ret' # Fatal)
                   => /\ Len(ret'.sessions) = 1
                      /\ ret'.sessions[1] \in {ReadSession(n) : n \in FilesOf(arg')}
             /\ (op' = "delete" /\ ret' # Fatal)
                   => /\ ret' = Nil
                      /\ \E n \in FilesOf(arg') : files' = Remove(n)
             /\ ret' = Fatal => files' = files]_vars

\* A project-filtered findAll that aborted on a directory holding a name
\* that decodes and one that does not.
C15_Witness ==
    /\ op = "findAll"
    /\ ret = Fatal
    /\ arg.Project # <<>>
    /\ IsZeroRange(arg.Timerange)
    /\ ~AllDecode
    /\ \E n \in DOMAIN files : ~parseSessionFileName(n).err

\* C15 as stated: on a directory holding a name that does not decode every
\* listing operation aborts and leaves the directory as it was.
C15_EveryListingAborts ==
    [][(~AllDecode /\ op' \in {"findById", "delete", "findLast", "findAll"})
          => ret' = Fatal /\ files' = files]_vars

(***************************************************************************)
(* C16.  The subdirectories of the storage directory are ignored: each of  *)
(* findById, delete, findLast and findAll (no filter, project filter, time *)
(* range) has an outcome it has on the same files with no subdirectory.    *)
(***************************************************************************)
\* The listings of the directory, had it no subdirectory.
FileListings == Orderings({[Name |-> n, IsDir |-> FALSE] : n \in DOMAIN files})

C16_SubdirsIgnored ==
    [][/\ op' = "findById"
             => ret' \in {FindById(fileInfos, arg') : fileInfos \in FileListings}
       /\ op' = "findLast"
             => ret' \in {FindLastSession(fileInfos) : fileInfos \in FileListings}
       /\ op' = "findAll"
             => ret' \in {FindAllSessions(fileInfos, arg') : fileInfos \in FileListings}
       /\ op' = "delete"
             => \E fileInfos \in FileListings :
                   /\ ret' = Delete(fileInfos, arg').ret
                   /\ files' = Delete(fileInfos, arg').files]_vars

(***************************************************************************)
(* C17.  findAll with a project and a time range returns exactly the       *)
(* sessions that pass both filters, and has the same outcome, abort or     *)
(* return, whether the project filter runs before the time-range filter or *)
(* after it.                                                               *)
(***************************************************************************)
\* FindAllSessions with the project filter run first, the time range second.
ProjectThenTimeRange(fileInfos, filters) ==
    LET byProject == filterByProject(fileInfos, filters.Project)
        byTime    == IF byProject.fatal
                     THEN byProject
                     ELSE filterByTimeRange(byProject.infos, filters.Timerange)
    IN  IF byTime.fatal
        THEN Fatal
        ELSE Ok(SortSessions(ReadSessions(byTime.infos)))

BothFilters(filters) ==
    /\ ~filters.nil
    /\ filters.Project # <<>>
    /\ ~IsZeroRange(filters.Timerange)

\* File n holds a session of the project and its decoded start time lies in
\* the time range.
PassesBoth(n, filters) ==
    /\ ReadSession(n).Project = filters.Project
    /\ StrictlyWithin(parseSessionFileName(n).name.StartTime, filters.Timerange)

C17_FilterOrderIrrelevant ==
    (op = "findAll" /\ BothFilters(arg) /\ AllDecode)
        => /\ \A fileInfos \in readFlowFolder :
                  FindAllSessions(fileInfos, arg) = ProjectThenTimeRange(fileInfos, arg)
           /\ ret.kind = "ok"
           /\ Range(ret.sessions)
                 = {ReadSession(n) : n \in {m \in DOMAIN files : PassesBoth(m, arg)}}

(***************************************************************************)
(* C18.  The queries (findById, findAll, findLast, findAllProjects,        *)
(* findAllProjectTags) leave the directory as it is, and answer from the   *)
(* directory as it is at the call: the outcome is one the operation has on *)
(* the present files, and a query that follows a save or a delete shows    *)
(* the saved session, and the sessions that remain.                        *)
(***************************************************************************)
QueryOps == {"findById", "findAll", "findLast", "findAllProjects", "findAllProjectTags"}

\* The outcomes operation o has with argument a on the directory.
Outcomes(o, a) ==
    {CASE o = "findById"           -> FindById(fileInfos, a)
       [] o = "findAll"            -> FindAllSessions(fileInfos, a)
       [] o = "findLast"           -> FindLastSession(fileInfos)
       [] o = "findAllProjects"    -> FindAllProjects(fileInfos)
       [] o = "findAllProjectTags" -> FindAllProjectTags(fileInfos, a)
     : fileInfos \in readFlowFolder}

C18_QueriesReadOnly ==
    [][op' \in QueryOps
          => /\ files' = files
             /\ subdirs' = subdirs
             /\ ret' \in Outcomes(op', arg')
             /\ (op' = "findAll" /\ arg'.nil)
                   => /\ ret'.kind = "ok"
                      /\ Range(ret'.sessions) = Stored
                      /\ Len(ret'.sessions) = Cardinality(DOMAIN files)
                      /\ op = "save" => arg \in Range(ret'.sessions)
             /\ (op' = "findAllProjects" /\ op = "save")
                   => arg.Project \in Range(ret'.sessions)]_vars

\* findAll without filters returned the two stored sessions.
C18_Witness ==
    /\ op = "findAll"
    /\ arg.nil
    /\ effect = "none"
    /\ Cardinality(DOMAIN files) = 2
    /\ Range(ret.sessions) = Stored

(***************************************************************************)
(* C19.  findLast reads the file named by re-encoding the most recent      *)
(* decoded record.  Where every file was written by save and every name    *)
(* decodes, each record re-encodes to the name it was decoded from, so     *)
(* the path exists: findLast on such a directory, if not empty, returns a  *)
(* stored session and never fails on a missing path.                       *)
(***************************************************************************)
C19_ReencodedNameExists ==
    AllDecode
        => /\ \A n \in DOMAIN files : String(parseSessionFileName(n).name) = n
           /\ (op = "findLast" /\ DOMAIN files # {})
                 => /\ ret.kind = "ok"
                    /\ Len(ret.sessions) = 1
                    /\ ret.sessions[1] \in Stored

\* findLast returned a session whose project is not its name's project
\* part, from a directory of two files.
C19_Witness ==
    /\ op = "findLast"
    /\ AllDecode
    /\ Cardinality(DOMAIN files) = 2
    /\ ret.kind = "ok"
    /\ Len(ret.sessions) = 1
    /\ ret.sessions[1].Project # StrippedProject(ret.sessions[1].Project)
    /\ Unix(ret.sessions[1].StartTime) = MaxSec

====
